---- MODULE Spec2Model ----
(***************************************************************************)
(* Route synthesis and air-quality annotation pipeline of fnl_agnt.        *)
(*                                                                         *)
(* Fixed-point units used throughout (Python floats in the source):        *)
(*   pollutant readings      : hundredths of a microgram per cubic metre   *)
(*   air-quality scores      : hundredths of a score point (50.0 = 5000)   *)
(*   positions and lengths   : metres; a point is its position along one   *)
(*                             meridian, so geodesic(a, b) = |a - b|       *)
(*   *_km fields of a result : hundredths of a kilometre (round(x, 2))     *)
(*   *_min fields of a result: tenths of a minute       (round(x, 1))      *)
(* round() is modelled as rounding to nearest, ties to even.               *)
(***************************************************************************)
EXTENDS Integers, Sequences, FiniteSets, TLC

VARIABLES
    pc,                 \* position of the running call
    metrics,            \* calculate_air_quality_score: its argument
    score,              \* a score, in hundredths
    level,              \* get_quality_level: its result
    point,              \* nearest-neighbour scan: the query point
    candidates,         \* nearest-neighbour scan: the candidate list
    max_distance_km,    \* nearest-neighbour scan: the radius, in metres
    nearest,            \* nearest-neighbour scan: its result
    route_coords,       \* the route: a sequence of [node_id, pos]
    mode,               \* transport mode
    route_length_m,     \* total route length, in metres
    air_quality_data,   \* result of get_air_quality_for_all_nodes
    steps,              \* result of generate_detailed_route_steps
    summary,            \* result of analyze_route_air_quality
    entry,              \* the orchestrator called: "direct", "search" or "nearest"
    origin,             \* requested origin, a position
    destination,        \* the destination routed to: [nombre, pos]
    dest_result,        \* what find_destination_osm returned
    result,             \* what the orchestrator returns
    calls,              \* the external calls made so far: [name, ok]
    graph,              \* the street graph: [nodes, edges]
    origin_node,        \* the graph node nearest to the origin
    destination_node,   \* the graph node nearest to the destination
    route_nodes         \* route, what nx.shortest_path returned: node ids

vars == <<pc, metrics, score, level, point, candidates, max_distance_km,
          nearest, route_coords, mode, route_length_m, air_quality_data,
          steps, summary, entry, origin, destination, dest_result, result, calls,
          graph, origin_node, destination_node, route_nodes>>

scoreVars == <<metrics, score, level>>
scanVars  == <<point, candidates, max_distance_km, nearest>>
routeVars == <<route_coords, mode, route_length_m, air_quality_data, steps, summary>>
orchVars  == <<entry, origin, destination, dest_result, result, calls>>
pathVars  == <<graph, origin_node, destination_node, route_nodes>>

\* None, or an absent key: the empty tuple; a present number x: <<x>>
None == <<>>
Some(x) == <<x>>
NoMetrics == [massPM2_5Avg |-> None, massPM10_0Avg |-> None]

\* ------------------------------------------------------------------ bounds
PM25Step  == 500        \* coarse grid of PM2.5 readings: 5 ug/m3
PM10Step  == 2000       \* coarse grid of PM10 readings: 20 ug/m3
MaxCoarse == 12         \* coarse grid points per pollutant: 0..MaxCoarse
MaxFine   == 2          \* fine offsets 0..MaxFine hundredths above a grid point
ScoreTop  == 10000      \* scores handed to get_quality_level: 0..ScoreTop
RouteStep == 500        \* routes: distance between grid positions, in metres
MaxRoutePos == 1        \* short routes: positions 0..MaxRoutePos grid points
MaxShort  == 3          \* short routes: at most MaxShort nodes, any positions
MaxRouteLen == 85       \* long routes: at most MaxRouteLen nodes
TurnAt    == 2          \* long routes: the node at which a route turns back
Detour    == 7          \* metres by which the edges exceed the straight lines
MaxSensors == 2         \* sensors per telemetry snapshot
MaxMatches == 2         \* place search: every list of at most MaxMatches places
MaxLongMatches == 6     \* place search: longer lists, of at most MaxLongMatches places
GraphStep == 1000       \* street graph: distance between its nodes, in metres
MaxGraphNodes == 3      \* street graph: nodes 1..MaxGraphNodes
MaxEdges  == 3          \* street graph: at most MaxEdges edges
ReqStep   == 400        \* street graph: grid of requested points, in metres
MaxReq    == 5          \* street graph: requested points 0..MaxReq grid points
ScanStep  == 1000       \* nearest-neighbour scan: grid of positions, in metres
MaxScanPos == 5         \* nearest-neighbour scan: positions 0..MaxScanPos grid points
MaxCand   == 3          \* nearest-neighbour scan: candidates per list
MaxQuery  == 1          \* nearest-neighbour scan: query points 0..MaxQuery grid points
RadiusStep == 500       \* nearest-neighbour scan: grid of radii, in metres
MaxRadius == 6          \* nearest-neighbour scan: radii 0..MaxRadius grid points

\* ----------------------------------------------------------------- helpers
Max(a, b) == IF a >= b THEN a ELSE b
Min(a, b) == IF a <= b THEN a ELSE b
Abs(a) == IF a >= 0 THEN a ELSE -a

\* round(): a / b rounded to the nearest integer, ties to the even one (a >= 0, b > 0)
RoundDiv(a, b) ==
    LET q == a \div b
        r == a % b
    IN  IF 2 * r < b THEN q
        ELSE IF 2 * r > b THEN q + 1
        ELSE IF q % 2 = 0 THEN q ELSE q + 1

\* `x or 0` on a reading that is absent or null
OrZero(x) == IF x = None THEN 0 ELSE x[1]

\* ------------------------------------------------- air_quality_tools.py
\* the weighted sum of the two component scores, in 1e-5 score points
\* (components in 1e-4 score points, weights 0.7 and 0.3 in tenths)
WeightedScore(pm25, pm10) ==
    LET pm25_score == Max(0, 1000000 - pm25 * 200)
        pm10_score == Max(0, 1000000 - pm10 * 50)
    IN  pm25_score * 7 + pm10_score * 3

calculate_air_quality_score_swapped(m) ==
    LET pm25 == OrZero(m.massPM2_5Avg)
        pm10 == OrZero(m.massPM10_0Avg)
        pm25_score == Max(0, 1000000 - pm25 * 200)
        pm10_score == Max(0, 1000000 - pm10 * 50)
    IN  RoundDiv(Max(0, Min(10000000, pm25_score * 3 + pm10_score * 7)), 1000)

calculate_air_quality_score(m) ==
    LET pm25 == OrZero(m.massPM2_5Avg)
        pm10 == OrZero(m.massPM10_0Avg)
        overall_score == WeightedScore(pm25, pm10)
    IN  RoundDiv(Max(0, Min(10000000, overall_score)), 1000)

get_quality_level_strict(s) ==
    IF s > 8000 THEN "Excelente"
    ELSE IF s > 6000 THEN "Buena"
    ELSE IF s > 4000 THEN "Moderada"
    ELSE "Mala"

get_quality_level(s) ==
    IF s >= 8000 THEN "Excelente"
    ELSE IF s >= 6000 THEN "Buena"
    ELSE IF s >= 4000 THEN "Moderada"
    ELSE "Mala"

\* ------------------------------------------------------ the spatial join
\* geodesic(a, b): both points on one meridian, positions in metres
geodesic(a, b) == Abs(a - b)

\* `distance < min_distance`, min_distance starting at float('inf') (None here)
BelowMin(distance, min_distance) ==
    min_distance = None \/ distance < min_distance[1]

\* the loop of find_nearest_air_quality_node from candidate i on;
\* acc = [nearest, min_distance]
RECURSIVE ScanNodes(_, _, _, _, _)
ScanNodes(p, air_quality_nodes, max_distance, i, acc) ==
    IF i > Len(air_quality_nodes) THEN acc
    ELSE LET node == air_quality_nodes[i]
             distance == geodesic(p, node.pos)
         IN  IF BelowMin(distance, acc.min_distance) /\ distance <= max_distance
             THEN ScanNodes(p, air_quality_nodes, max_distance, i + 1,
                            [nearest |-> Some(node), min_distance |-> Some(distance)])
             ELSE ScanNodes(p, air_quality_nodes, max_distance, i + 1, acc)

\* a scan that keeps the last candidate within the radius
find_nearest_air_quality_node_last(p, air_quality_nodes, max_distance) ==
    LET inside == {i \in 1..Len(air_quality_nodes) :
                      geodesic(p, air_quality_nodes[i].pos) <= max_distance}
    IN  IF inside = {} THEN None
        ELSE Some(air_quality_nodes[CHOOSE i \in inside : \A j \in inside : j <= i])

find_nearest_air_quality_node(p, air_quality_nodes, max_distance) ==
    ScanNodes(p, air_quality_nodes, max_distance, 1,
              [nearest |-> None, min_distance |-> None]).nearest

\* matches[:limit] of find_destination_osm
limit == 5

\* find_destination_osm, given what find_destination_by_tags and
\* find_destination_backup return
find_destination_osm(tag_matches, backup_matches) ==
    IF tag_matches # <<>>
    THEN [success |-> TRUE,
          matches |-> SubSeq(tag_matches, 1, Min(limit, Len(tag_matches)))]
    ELSE IF backup_matches # <<>>
    THEN [success |-> TRUE,
          matches |-> SubSeq(backup_matches, 1, Min(limit, Len(backup_matches)))]
    ELSE [success |-> FALSE, error |-> "No se encontraron resultados"]

\* the loop of find_nearest_destination from match i on;
\* acc = [nearest_dest, min_distance]
RECURSIVE ScanDestinations(_, _, _, _, _)
ScanDestinations(from, matches, max_distance, i, acc) ==
    IF i > Len(matches) THEN acc
    ELSE LET dest == matches[i]
             distance == geodesic(from, dest.pos)
         IN  IF BelowMin(distance, acc.min_distance) /\ distance <= max_distance
             THEN ScanDestinations(from, matches, max_distance, i + 1,
                            [nearest_dest |-> Some(dest),
                             min_distance |-> Some(distance)])
             ELSE ScanDestinations(from, matches, max_distance, i + 1, acc)

\* a scan that takes the first match within the radius, not the nearest
find_nearest_destination_first(from, dr, max_distance) ==
    IF ~dr.success \/ dr.matches = <<>>
    THEN [success |-> FALSE, error |-> "No se encontraron"]
    ELSE LET within == {i \in 1..Len(dr.matches) :
                            geodesic(from, dr.matches[i].pos) <= max_distance}
         IN  IF within # {}
             THEN LET first == CHOOSE i \in within : \A j \in within : i <= j
                  IN  [success |-> TRUE,
                       nearest_destination |-> dr.matches[first],
                       distance_km |-> RoundDiv(geodesic(from, dr.matches[first].pos), 10),
                       origin |-> from]
             ELSE [success |-> FALSE, error |-> "No hay dentro de"]

\* find_nearest_destination, given what find_destination_osm returned
find_nearest_destination(from, dr, max_distance) ==
    IF ~dr.success \/ dr.matches = <<>>
    THEN [success |-> FALSE, error |-> "No se encontraron"]
    ELSE LET acc == ScanDestinations(from, dr.matches, max_distance, 1,
                                     [nearest_dest |-> None, min_distance |-> None])
         IN  IF acc.nearest_dest # None
             THEN [success |-> TRUE,
                   nearest_destination |-> acc.nearest_dest[1],
                   distance_km |-> RoundDiv(acc.min_distance[1], 10),
                   origin |-> from]
             ELSE [success |-> FALSE, error |-> "No hay dentro de"]

\* ------------------------------------------------------ osm_route_tools.py
get_osm_speed_kmh(m) ==
    CASE m = "drive" -> 40
      [] m = "walk" -> 5
      [] m = "bike" -> 15
      [] OTHER -> 20

\* round(distance_km, 2) of a distance in metres: hundredths of a kilometre
RoundKm(distance_m) == RoundDiv(distance_m, 10)

\* round(distance_km / speed * 60, 1) of a distance in metres: tenths of a minute
RoundMinutes(distance_m, m) == RoundDiv(distance_m * 3, 5 * get_osm_speed_kmh(m))

calculate_distance_along_route(start_point, current_point) ==
    geodesic(start_point.pos, current_point.pos)

\* a point evaluation that takes the nearest sensor however far it is
evaluate_point_air_quality_anyrange(p, aqd) ==
    IF ~aqd.success THEN [score |-> 5000, level |-> "Sin datos"]
    ELSE LET found == find_nearest_air_quality_node(p.pos, aqd.nodes_with_air_quality,
                                                    100000)
         IN  IF found # None
             THEN LET sensor == found[1]
                  IN  [score |-> sensor.air_quality.air_quality_score,
                       level |-> get_quality_level(sensor.air_quality.air_quality_score),
                       nearest_sensor |-> sensor.nombre,
                       sensor_distance_km |-> RoundKm(geodesic(p.pos, sensor.pos))]
             ELSE [score |-> 5000, level |-> "Sin datos cercanos"]

evaluate_point_air_quality(p, aqd) ==
    IF ~aqd.success THEN [score |-> 5000, level |-> "Sin datos"]
    ELSE LET found == find_nearest_air_quality_node(p.pos, aqd.nodes_with_air_quality, 3000)
         IN  IF found # None
             THEN LET sensor == found[1]
                  IN  [score |-> sensor.air_quality.air_quality_score,
                       level |-> get_quality_level(sensor.air_quality.air_quality_score),
                       nearest_sensor |-> sensor.nombre,
                       sensor_distance_km |-> RoundKm(geodesic(p.pos, sensor.pos))]
             ELSE [score |-> 5000, level |-> "Sin datos cercanos"]

\* an instruction choice that tests the 60% threshold before the 30% one
generate_segment_instruction_swapped(point_idx, n) ==
    IF 10 * point_idx < 6 * n THEN "Mantengase en esta via"
    ELSE IF 10 * point_idx < 3 * n THEN "Continue por la ruta principal"
    ELSE IF 10 * point_idx < 9 * n THEN "Se acerca a su destino"
    ELSE "Prepare su llegada al destino final"

\* progress = point_idx / len(route_coords), compared with 0.3, 0.6 and 0.9
generate_segment_instruction(point_idx, n) ==
    IF 10 * point_idx < 3 * n THEN "Continue por la ruta principal"
    ELSE IF 10 * point_idx < 6 * n THEN "Mantengase en esta via"
    ELSE IF 10 * point_idx < 9 * n THEN "Se acerca a su destino"
    ELSE "Prepare su llegada al destino final"

get_segment_icon(segment_idx) == segment_idx % 8

StartStep(route, aqd, text) ==
    [step_number |-> 1,
     instruction |-> text,
     coordinates |-> route[1],
     distance_from_start_km |-> 0,
     estimated_time_min |-> 0,
     air_quality |-> evaluate_point_air_quality(route[1], aqd),
     icon |-> "inicio",
     type |-> "start"]

ArrivalStep(route, aqd, m, total_m, done, text) ==
    [step_number |-> Len(done) + 1,
     instruction |-> text,
     coordinates |-> route[Len(route)],
     distance_from_start_km |-> RoundKm(total_m),
     estimated_time_min |-> RoundMinutes(total_m, m),
     air_quality |-> evaluate_point_air_quality(route[Len(route)], aqd),
     icon |-> "llegada",
     type |-> "arrival"]

\* the navigation step at 0-based index point_idx
NavigationStep(route, aqd, m, segment_idx, point_idx, done) ==
    LET current_point == route[point_idx + 1]
        distance_from_start == calculate_distance_along_route(route[1], current_point)
    IN  [step_number |-> Len(done) + 1,
         instruction |-> generate_segment_instruction(point_idx, Len(route)),
         coordinates |-> current_point,
         distance_from_start_km |-> RoundKm(distance_from_start),
         estimated_time_min |-> RoundMinutes(distance_from_start, m),
         air_quality |-> evaluate_point_air_quality(current_point, aqd),
         icon |-> get_segment_icon(segment_idx),
         type |-> "navigation"]

generate_basic_steps(route, aqd, m, total_m) ==
    LET s1 == <<StartStep(route, aqd, "Inicio del viaje")>>
        mid_idx == Len(route) \div 2
        s2 == IF Len(route) > 2
              THEN Append(s1, [step_number |-> 2,
                     instruction |-> "Continue hacia su destino",
                     coordinates |-> route[mid_idx + 1],
                     distance_from_start_km |->
                         RoundKm(calculate_distance_along_route(route[1], route[mid_idx + 1])),
                     estimated_time_min |->
                         RoundMinutes(calculate_distance_along_route(route[1], route[mid_idx + 1]), m),
                     air_quality |-> evaluate_point_air_quality(route[mid_idx + 1], aqd),
                     icon |-> "destino",
                     type |-> "navigation"])
              ELSE s1
    IN  Append(s2, ArrivalStep(route, aqd, m, total_m, s2, "Ha llegado a su destino (basico)"))

\* for segment_idx in range(segment_idx, num_segments), with its break
RECURSIVE SegmentLoop(_, _, _, _, _, _, _)
SegmentLoop(route, aqd, m, num_segments, segment_size, segment_idx, done) ==
    IF segment_idx >= num_segments THEN done
    ELSE LET point_idx == segment_idx * segment_size
         IN  IF point_idx >= Len(route) THEN done
             ELSE SegmentLoop(route, aqd, m, num_segments, segment_size, segment_idx + 1,
                      Append(done, NavigationStep(route, aqd, m, segment_idx, point_idx, done)))

\* a synthesizer whose segment loop also emits the boundary num_segments
generate_detailed_route_steps_extra(route, aqd, m, total_m) ==
    IF Len(route) < 3 THEN generate_basic_steps(route, aqd, m, total_m)
    ELSE LET num_segments == Min(8, Max(3, Len(route) \div 10))
             segment_size == Len(route) \div num_segments
             navs == SegmentLoop(route, aqd, m, num_segments + 1, segment_size, 1,
                         <<StartStep(route, aqd, "Inicie su viaje desde el punto de origen")>>)
         IN  Append(navs, ArrivalStep(route, aqd, m, total_m, navs, "Ha llegado a su destino"))

\* a synthesizer that numbers the arrival step by the segment count
generate_detailed_route_steps_numbering(route, aqd, m, total_m) ==
    IF Len(route) < 3 THEN generate_basic_steps(route, aqd, m, total_m)
    ELSE LET num_segments == Min(8, Max(3, Len(route) \div 10))
             segment_size == Len(route) \div num_segments
             navs == SegmentLoop(route, aqd, m, num_segments, segment_size, 1,
                         <<StartStep(route, aqd, "Inicie su viaje desde el punto de origen")>>)
         IN  Append(navs, [ArrivalStep(route, aqd, m, total_m, navs, "Ha llegado a su destino")
                             EXCEPT !.step_number = num_segments])

\* a synthesizer whose segment size is len / num_segments rounded up
generate_detailed_route_steps_ceil(route, aqd, m, total_m) ==
    IF Len(route) < 3 THEN generate_basic_steps(route, aqd, m, total_m)
    ELSE LET num_segments == Min(8, Max(3, Len(route) \div 10))
             segment_size == (Len(route) + num_segments - 1) \div num_segments
             navs == SegmentLoop(route, aqd, m, num_segments, segment_size, 1,
                         <<StartStep(route, aqd, "Inicie su viaje desde el punto de origen")>>)
         IN  Append(navs, ArrivalStep(route, aqd, m, total_m, navs, "Ha llegado a su destino"))

\* a synthesizer whose segment loop starts at segment 0
generate_detailed_route_steps_fromzero(route, aqd, m, total_m) ==
    IF Len(route) < 3 THEN generate_basic_steps(route, aqd, m, total_m)
    ELSE LET num_segments == Min(8, Max(3, Len(route) \div 10))
             segment_size == Len(route) \div num_segments
             navs == SegmentLoop(route, aqd, m, num_segments, segment_size, 0,
                         <<StartStep(route, aqd, "Inicie su viaje desde el punto de origen")>>)
         IN  Append(navs, ArrivalStep(route, aqd, m, total_m, navs, "Ha llegado a su destino"))

generate_detailed_route_steps(route, aqd, m, total_m) ==
    IF Len(route) < 3 THEN generate_basic_steps(route, aqd, m, total_m)
    ELSE LET num_segments == Min(8, Max(3, Len(route) \div 10))
             segment_size == Len(route) \div num_segments
             navs == SegmentLoop(route, aqd, m, num_segments, segment_size, 1,
                         <<StartStep(route, aqd, "Inicie su viaje desde el punto de origen")>>)
         IN  Append(navs, ArrivalStep(route, aqd, m, total_m, navs, "Ha llegado a su destino"))

\* get_quality_level on the unrounded mean total / count (count = 1: a score)
QualityLevelOfMean(total, count) ==
    IF total >= 8000 * count THEN "Excelente"
    ELSE IF total >= 6000 * count THEN "Buena"
    ELSE IF total >= 4000 * count THEN "Moderada"
    ELSE "Mala"

\* generate_air_quality_recommendation on the unrounded mean total / count
generate_air_quality_recommendation(total, count) ==
    IF total >= 8000 * count THEN "Calidad del aire excelente"
    ELSE IF total >= 6000 * count THEN "Calidad del aire buena"
    ELSE IF total >= 4000 * count THEN "Calidad moderada"
    ELSE "Calidad del aire mala"

RECURSIVE SumSeq(_, _)
SumSeq(s, i) == IF i > Len(s) THEN 0 ELSE s[i] + SumSeq(s, i + 1)
MinSeq(s) == CHOOSE x \in {s[i] : i \in 1..Len(s)} : \A i \in 1..Len(s) : x <= s[i]
MaxSeq(s) == CHOOSE x \in {s[i] : i \in 1..Len(s)} : \A i \in 1..Len(s) : x >= s[i]

\* a sample loop that scores a sample without a sensor in range as 50.0
RECURSIVE SampleLoop_default50(_, _, _, _, _)
SampleLoop_default50(route, air_quality_nodes, stride, i, acc) ==
    IF i >= Len(route) THEN acc
    ELSE LET p == route[i + 1]
             nearest_node == find_nearest_air_quality_node(p.pos, air_quality_nodes, 3000)
             s == IF nearest_node # None
                  THEN nearest_node[1].air_quality.air_quality_score ELSE 5000
         IN  SampleLoop_default50(route, air_quality_nodes, stride, i + stride,
                 [scores |-> Append(acc.scores, s),
                  quality_points |-> Append(acc.quality_points,
                      [coordinates |-> p, score |-> s,
                       quality_level |-> get_quality_level(s),
                       nearest_sensor |-> IF nearest_node # None
                                          THEN nearest_node[1].nombre ELSE 0])])

\* for point in sample_points, the samples being the 0-based indexes
\* i, i + stride, ... below len(route_coords); acc = [scores, quality_points]
RECURSIVE SampleLoop(_, _, _, _, _)
SampleLoop(route, air_quality_nodes, stride, i, acc) ==
    IF i >= Len(route) THEN acc
    ELSE LET p == route[i + 1]
             nearest_node == find_nearest_air_quality_node(p.pos, air_quality_nodes, 3000)
         IN  IF nearest_node # None
             THEN LET s == nearest_node[1].air_quality.air_quality_score
                  IN  SampleLoop(route, air_quality_nodes, stride, i + stride,
                          [scores |-> Append(acc.scores, s),
                           quality_points |-> Append(acc.quality_points,
                               [coordinates |-> p, score |-> s,
                                quality_level |-> get_quality_level(s),
                                nearest_sensor |-> nearest_node[1].nombre])])
             ELSE SampleLoop(route, air_quality_nodes, stride, i + stride, acc)

DegradedSummary(quality_level, message) ==
    [average_air_quality_score |-> 5000,
     quality_level |-> quality_level,
     message |-> message]

RouteSummary(scores, quality_points) ==
    [average_air_quality_score |-> RoundDiv(SumSeq(scores, 1), Len(scores)),
     quality_level |-> QualityLevelOfMean(SumSeq(scores, 1), Len(scores)),
     samples_analyzed |-> Len(scores),
     min_score |-> MinSeq(scores),
     max_score |-> MaxSeq(scores),
     quality_points |-> SubSeq(quality_points, 1, Min(3, Len(quality_points))),
     recommendation |-> generate_air_quality_recommendation(SumSeq(scores, 1), Len(scores))]

\* an analyzer that reports "no sample joined" like "the snapshot failed"
analyze_route_air_quality_samemsg(route, aqd) ==
    IF ~aqd.success
    THEN DegradedSummary("Sin datos", "No hay datos disponibles de calidad del aire")
    ELSE IF aqd.nodes_with_air_quality = <<>>
    THEN DegradedSummary("Sin datos", "No se encontraron sensores de calidad del aire")
    ELSE LET acc == SampleLoop(route, aqd.nodes_with_air_quality,
                               Max(1, Len(route) \div 10), 0,
                               [scores |-> <<>>, quality_points |-> <<>>])
         IN  IF acc.scores # <<>> THEN RouteSummary(acc.scores, acc.quality_points)
             ELSE DegradedSummary("Sin datos", "No hay datos disponibles de calidad del aire")

\* an analyzer whose stride is one more than max(1, len // 10)
analyze_route_air_quality_stride(route, aqd) ==
    IF ~aqd.success
    THEN DegradedSummary("Sin datos", "No hay datos disponibles de calidad del aire")
    ELSE IF aqd.nodes_with_air_quality = <<>>
    THEN DegradedSummary("Sin datos", "No se encontraron sensores de calidad del aire")
    ELSE LET acc == SampleLoop(route, aqd.nodes_with_air_quality,
                               Max(1, Len(route) \div 10) + 1, 0,
                               [scores |-> <<>>, quality_points |-> <<>>])
         IN  IF acc.scores # <<>> THEN RouteSummary(acc.scores, acc.quality_points)
             ELSE DegradedSummary("Desconocida",
                      "No se pudieron obtener datos de calidad del aire en la ruta")

analyze_route_air_quality(route, aqd) ==
    IF ~aqd.success
    THEN DegradedSummary("Sin datos", "No hay datos disponibles de calidad del aire")
    ELSE IF aqd.nodes_with_air_quality = <<>>
    THEN DegradedSummary("Sin datos", "No se encontraron sensores de calidad del aire")
    ELSE LET acc == SampleLoop(route, aqd.nodes_with_air_quality,
                               Max(1, Len(route) \div 10), 0,
                               [scores |-> <<>>, quality_points |-> <<>>])
         IN  IF acc.scores # <<>> THEN RouteSummary(acc.scores, acc.quality_points)
             ELSE DegradedSummary("Desconocida",
                      "No se pudieron obtener datos de calidad del aire en la ruta")

\* ---------------------------------------------------------- orchestrators
get_mode_display_name(m) ==
    CASE m = "drive" -> "vehiculo"
      [] m = "walk" -> "caminando"
      [] m = "bike" -> "bicicleta"
      [] OTHER -> m

calculate_osm_duration(distance_m, m) == RoundMinutes(distance_m, m)

RoutePositions(route) == {route[i].pos : i \in 1..Len(route)}

\* north and south of the bounding box (all points lie on one meridian)
calculate_osm_bounds(route) ==
    [north |-> CHOOSE x \in RoutePositions(route) : \A y \in RoutePositions(route) : x >= y,
     south |-> CHOOSE x \in RoutePositions(route) : \A y \in RoutePositions(route) : x <= y]

find_route_center(route) == [pos |-> route[Len(route) \div 2 + 1].pos]

\* an except clause that hands back what was computed before the fault
RouteError_partial(e) ==
    [success |-> FALSE, error |-> <<"Error en calculo de ruta", e>>,
     route_coordinates |-> <<>>]

\* the except clause of get_osm_route_with_air_quality
RouteError(e) == [success |-> FALSE, error |-> <<"Error en calculo de ruta", e>>]

\* the value get_osm_route_with_air_quality returns, given the steps and the
\* analysis it computed
RouteResult(o, d, m, route, length_m, route_steps, route_air_quality) ==
    [success |-> TRUE,
     route_type |-> "REAL_OSM_ROUTE",
     route_summary |->
         [origin |-> [pos |-> o, name |-> "Origen"],
          destination |-> [pos |-> d, name |-> "Destino"],
          total_distance_km |-> RoundKm(length_m),
          total_distance_m |-> length_m,
          estimated_duration_min |-> calculate_osm_duration(length_m, m),
          transport_mode |-> get_mode_display_name(m),
          nodes_in_route |-> Len(route),
          coordinates_count |-> Len(route)],
     step_by_step_instructions |-> route_steps,
     route_coordinates |-> [i \in 1..Len(route) |-> [pos |-> route[i].pos]],
     air_quality_analysis |-> route_air_quality,
     map_data |->
         [bounds |-> calculate_osm_bounds(route),
          center |-> find_route_center(route),
          origin_marker |-> [pos |-> o, type |-> "origin"],
          destination_marker |-> [pos |-> d, type |-> "destination"]],
     timestamp |-> "now"]

\* what the called orchestrator makes of a successful route_result
CompleteResult(e, route_result, d, dr, nearest_result) ==
    CASE e = "search" ->
             [destination_info |-> d,
              search_query |-> "query",
              alternative_destinations |-> SubSeq(dr.matches, 2, Min(3, Len(dr.matches)))]
             @@ route_result
      [] e = "nearest" ->
             [destination_info |-> d,
              nearest_search |->
                  [type |-> "query",
                   straight_line_distance_km |-> nearest_result.distance_km,
                   actual_route_distance_km |-> route_result.route_summary.total_distance_km]]
             @@ route_result
      [] OTHER -> route_result

\* ------------------------------------------------- the route on the graph
\* ox.distance.nearest_nodes: the nodes at the least distance from the point p
\* (which one of several equally near nodes is returned is up to the library)
nearest_nodes(g, p) ==
    {n \in 1..Len(g.nodes) :
        \A k \in 1..Len(g.nodes) : geodesic(p, g.nodes[n]) <= geodesic(p, g.nodes[k])}

\* graph.get_edge_data(u, v): the parallel edges from u to v, in key order
get_edge_data(g, u, v) == SelectSeq(g.edges, LAMBDA e : e.from = u /\ e.to = v)

\* the weight networkx gives the hop from u to v of a multigraph under
\* weight='length': the least attr.get('length', 1) of its parallel edges
HopWeight(g, u, v) ==
    LET parallel == get_edge_data(g, u, v)
        weights == {IF parallel[i].length = None THEN 1 ELSE parallel[i].length[1]
                      : i \in 1..Len(parallel)}
    IN  CHOOSE w \in weights : \A x \in weights : w <= x

\* the paths from s to t: no node twice, an edge for every hop
Paths(g, s, t) ==
    {p \in UNION {[1..n -> 1..Len(g.nodes)] : n \in 1..Len(g.nodes)} :
        /\ p[1] = s /\ p[Len(p)] = t
        /\ \A i, j \in 1..Len(p) : p[i] = p[j] => i = j
        /\ \A i \in 1..(Len(p) - 1) : get_edge_data(g, p[i], p[i + 1]) # <<>>}

RECURSIVE PathWeight(_, _, _)
PathWeight(g, p, i) ==
    IF i >= Len(p) THEN 0 ELSE HopWeight(g, p[i], p[i + 1]) + PathWeight(g, p, i + 1)

\* nx.shortest_path(graph, s, t, weight='length'): the paths of least weight
\* (none: NetworkXNoPath)
shortest_path(g, s, t) ==
    {p \in Paths(g, s, t) : \A q \in Paths(g, s, t) : PathWeight(g, p, 1) <= PathWeight(g, q, 1)}

\* the length loop from hop i on: list(edge_data.values())[0].get('length', 0)
RECURSIVE RouteLength(_, _, _)
RouteLength(g, p, i) ==
    IF i >= Len(p) THEN 0
    ELSE LET edge_data == get_edge_data(g, p[i], p[i + 1])
         IN  (IF edge_data # <<>>
              THEN (IF edge_data[1].length = None THEN 0 ELSE edge_data[1].length[1])
              ELSE 0) + RouteLength(g, p, i + 1)

\* ------------------------------------------------ idle values of the groups
NoPlace == [nombre |-> 0, pos |-> 0]
NoResult == [pending |-> TRUE]
OrchIdle == /\ entry = "none" /\ origin = 0 /\ destination = NoPlace
            /\ dest_result = [success |-> FALSE] /\ result = NoResult /\ calls = <<>>
PathIdle == /\ graph = [nodes |-> <<>>, edges |-> <<>>]
            /\ origin_node = 0 /\ destination_node = 0 /\ route_nodes = <<>>
ScoreIdle == metrics = NoMetrics /\ score = 0 /\ level = "none"
ScanIdle  == point = 0 /\ candidates = <<>> /\ max_distance_km = 0 /\ nearest = None
RouteIdle == /\ route_coords = <<>> /\ mode = "none" /\ route_length_m = 0
             /\ air_quality_data = None /\ steps = <<>> /\ summary = None

\* =================================================================
\* SpecScore: calculate_air_quality_score applied to one latest reading
\* =================================================================
PM25Readings == {Some(c * PM25Step + f) : c \in 0..MaxCoarse, f \in 0..MaxFine} \cup {None}
PM10Readings == {Some(c * PM10Step + f) : c \in 0..MaxCoarse, f \in 0..MaxFine} \cup {None}

InitScore ==
    /\ pc = "start"
    /\ metrics \in [massPM2_5Avg : PM25Readings, massPM10_0Avg : PM10Readings]
    /\ score = 0 /\ level = "none"
    /\ ScanIdle /\ RouteIdle /\ OrchIdle /\ PathIdle

CalculateScore ==
    /\ pc = "start"
    /\ score' = calculate_air_quality_score(metrics)
    /\ pc' = "scored"
    /\ UNCHANGED <<pathVars, metrics, level, scanVars, routeVars, orchVars>>

NextScore == CalculateScore

SpecScore == InitScore /\ [][NextScore]_vars

\* =================================================================
\* SpecLevel: get_quality_level applied to one score of [0, 100]
\* =================================================================
InitLevel ==
    /\ pc = "start"
    /\ score \in 0..ScoreTop
    /\ metrics = NoMetrics /\ level = "none"
    /\ ScanIdle /\ RouteIdle /\ OrchIdle /\ PathIdle

GetQualityLevel ==
    /\ pc = "start"
    /\ level' = get_quality_level(score)
    /\ pc' = "levelled"
    /\ UNCHANGED <<pathVars, metrics, score, scanVars, routeVars, orchVars>>

NextLevel == GetQualityLevel

SpecLevel == InitLevel /\ [][NextLevel]_vars

\* =================================================================
\* SpecScan: the nearest-neighbour scans applied to one query
\* =================================================================
ScanPositions == {g * ScanStep : g \in 0..MaxScanPos}

\* candidate lists: candidate i is named i
CandidateLists ==
    UNION {{[i \in 1..n |-> [nombre |-> i, pos |-> f[i]]] : f \in [1..n -> ScanPositions]}
           : n \in 0..MaxCand}

InitScan ==
    /\ pc = "start"
    /\ point \in {g * ScanStep : g \in 0..MaxQuery}
    /\ candidates \in CandidateLists
    /\ max_distance_km \in {r * RadiusStep : r \in 0..MaxRadius}
    /\ nearest = None
    /\ ScoreIdle /\ RouteIdle /\ OrchIdle /\ PathIdle

FindNearestSensor ==
    /\ pc = "start"
    /\ nearest' = find_nearest_air_quality_node(point, candidates, max_distance_km)
    /\ pc' = "sensor"
    /\ UNCHANGED <<pathVars, point, candidates, max_distance_km, scoreVars, routeVars, orchVars>>

\* find_destination_osm succeeded with the candidates as its matches, or failed
\* (it never succeeds with no match)
FindNearestDestination ==
    /\ pc = "start"
    /\ nearest' = find_nearest_destination(point,
                      IF candidates = <<>> THEN [success |-> FALSE]
                      ELSE [success |-> TRUE, matches |-> candidates],
                      max_distance_km)
    /\ pc' = "destination"
    /\ UNCHANGED <<pathVars, point, candidates, max_distance_km, scoreVars, routeVars, orchVars>>

NextScan == FindNearestSensor \/ FindNearestDestination

SpecScan == InitScan /\ [][NextScan]_vars

\* =================================================================
\* SpecSteps: generate_detailed_route_steps applied to one route
\* =================================================================
Node(i, p) == [node_id |-> i, pos |-> p]

\* every route of at most MaxShort nodes over the first grid positions
ShortRoutes ==
    UNION {{[i \in 1..n |-> Node(i, RouteStep * f[i])] : f \in [1..n -> 0..MaxRoutePos]}
           : n \in 1..MaxShort}

\* a route of n nodes, one grid step apart, that turns back at node t (0-based)
\* and stays at the origin once it is back
Shape(n, t) ==
    [i \in 1..n |-> Node(i, RouteStep * (IF i - 1 <= t THEN i - 1 ELSE Max(0, 2 * t - (i - 1))))]

LongRoutes == {Shape(n, t) : n \in (MaxShort + 1)..MaxRouteLen, t \in {TurnAt, MaxRouteLen}}

Routes == ShortRoutes \cup LongRoutes

Modes == {"drive", "walk", "bike", "bus"}

\* sum of the straight-line distances between consecutive nodes
RECURSIVE PathGeodesic(_, _)
PathGeodesic(route, i) ==
    IF i >= Len(route) THEN 0
    ELSE geodesic(route[i].pos, route[i + 1].pos) + PathGeodesic(route, i + 1)

\* route_length_m as the length loop leaves it on a graph whose edges carry
\* their length: every edge as long as the straight line, or the edges longer
RouteLengths(route) ==
    {PathGeodesic(route, 1), PathGeodesic(route, 1) + Detour}

Sensor(name, p, s) ==
    [nombre |-> name, pos |-> p, air_quality |-> [air_quality_score |-> s]]
FailedSnapshot == [success |-> FALSE, error |-> "API Status"]
Snapshot(sensors) == [success |-> TRUE, nodes_with_air_quality |-> sensors]

StepSnapshots == {FailedSnapshot, Snapshot(<<>>), Snapshot(<<Sensor(1, 0, 7250)>>)}

InitSteps ==
    /\ pc = "start"
    /\ route_coords \in Routes
    /\ mode \in Modes
    /\ route_length_m \in RouteLengths(route_coords)
    /\ air_quality_data \in StepSnapshots
    /\ steps = <<>> /\ summary = None
    /\ ScoreIdle /\ ScanIdle /\ OrchIdle /\ PathIdle

GenerateSteps ==
    /\ pc = "start"
    /\ steps' = generate_detailed_route_steps(route_coords, air_quality_data, mode,
                                              route_length_m)
    /\ pc' = "steps"
    /\ UNCHANGED <<pathVars, route_coords, mode, route_length_m, air_quality_data, summary,
                   scoreVars, scanVars, orchVars>>

NextSteps == GenerateSteps

SpecSteps == InitSteps /\ [][NextSteps]_vars

\* =================================================================
\* SpecAnalyze: analyze_route_air_quality applied to one route and snapshot
\* =================================================================
\* the sensors of the snapshots: <<position, score>>; at the origin, 3.5 km
\* up the road, and out of reach of every route
SensorKinds == {<<0, 3000>>, <<0, 8000>>, <<3500, 7999>>, <<3500, 8000>>, <<50000, 3000>>}

\* sensor lists: sensor i is named i
SensorLists ==
    UNION {{[i \in 1..n |-> Sensor(i, f[i][1], f[i][2])]
              : f \in [1..n -> SensorKinds]}
           : n \in 0..MaxSensors}

AnalyzeSnapshots == {FailedSnapshot} \cup {Snapshot(l) : l \in SensorLists}

InitAnalyze ==
    /\ pc = "start"
    /\ route_coords \in Routes
    /\ air_quality_data \in AnalyzeSnapshots
    /\ mode = "none" /\ route_length_m = 0
    /\ steps = <<>> /\ summary = None
    /\ ScoreIdle /\ ScanIdle /\ OrchIdle /\ PathIdle

AnalyzeRoute ==
    /\ pc = "start"
    /\ summary' = analyze_route_air_quality(route_coords, air_quality_data)
    /\ pc' = "analysed"
    /\ UNCHANGED <<pathVars, route_coords, mode, route_length_m, air_quality_data, steps,
                   scoreVars, scanVars, orchVars>>

NextAnalyze == AnalyzeRoute

SpecAnalyze == InitAnalyze /\ [][NextAnalyze]_vars

\* =================================================================
\* SpecOrch: one request to one of the three orchestrators
\* =================================================================
Origins == {0, RouteStep}

\* the places a search can find, 2, 4 and 12 km up the road
Places == <<[nombre |-> 1, pos |-> 2000], [nombre |-> 2, pos |-> 4000],
            [nombre |-> 3, pos |-> 12000]>>
PlacePositions == {Places[i].pos : i \in 1..Len(Places)}

\* what find_destination_by_tags returns: the places of its tag queries one
\* after the other, so a place found by two queries is there twice; every list
\* of at most MaxMatches places, and longer lists that go round the places
MatchLists ==
    UNION {{[i \in 1..n |-> Places[f[i]]] : f \in [1..n -> 1..Len(Places)]}
           : n \in 1..MaxMatches}
    \cup {[i \in 1..n |-> Places[((i + k) % Len(Places)) + 1]]
             : n \in (MaxMatches + 1)..MaxLongMatches, k \in 1..Len(Places)}

\* what find_destination_backup returns
BackupLists == {<<>>, <<Places[1]>>}

SearchResults ==
    {find_destination_osm(t, b) : t \in {<<>>} \cup MatchLists, b \in BackupLists}

\* the modes of the requests: the default and one without a speed of its own
OrchModes == {"drive", "bus"}

\* the paths nx.shortest_path can return
OrchRoutes ==
    {Shape(n, t) : n \in {1, 2, 3, MaxShort + 1, MaxRouteLen}, t \in {1, MaxRouteLen}}

\* the telemetry outcomes: fetch failed, zero sensors, a sensor out of reach of
\* the route, a sensor 3.5 km up the road and one at the origin
OrchSnapshots ==
    {FailedSnapshot, Snapshot(<<>>), Snapshot(<<Sensor(1, 50000, 3000)>>),
     Snapshot(<<Sensor(1, 3500, 3000), Sensor(2, 0, 8000)>>)}

Call(name, ok) == [name |-> name, ok |-> ok]

InitOrch ==
    /\ pc = "start"
    /\ entry \in {"direct", "search", "nearest"}
    /\ origin \in Origins
    /\ mode \in OrchModes
    /\ destination \in IF entry = "direct"
                       THEN {[nombre |-> 0, pos |-> p] : p \in PlacePositions}
                       ELSE {NoPlace}
    /\ dest_result = [success |-> FALSE]
    /\ result = NoResult
    /\ calls = <<>>
    /\ route_coords = <<>> /\ route_length_m = 0 /\ air_quality_data = None
    /\ steps = <<>> /\ summary = None
    /\ ScoreIdle /\ ScanIdle /\ PathIdle

\* get_osm_route_with_air_quality is entered directly
EnterDirect ==
    /\ pc = "start" /\ entry = "direct"
    /\ pc' = "graph"
    /\ UNCHANGED <<pathVars, scoreVars, scanVars, routeVars, orchVars>>

\* get_complete_route_with_osm_search up to the route: the place search and
\* the choice of its first match
SearchDestination ==
    /\ pc = "start" /\ entry = "search"
    /\ \E dr \in SearchResults :
          /\ dest_result' = dr
          /\ calls' = Append(calls, Call("search", dr.success))
          /\ IF ~dr.success \/ dr.matches = <<>>
             THEN /\ result' = [success |-> FALSE, error |-> "No se encontro"]
                  /\ pc' = "done"
                  /\ UNCHANGED destination
             ELSE /\ destination' = dr.matches[1]
                  /\ pc' = "graph"
                  /\ UNCHANGED result
    /\ UNCHANGED <<pathVars, scoreVars, scanVars, routeVars, entry, origin>>

\* get_nearest_route_with_air_quality up to the route: find_nearest_destination
\* with its place search and its scan
NearestDestination ==
    /\ pc = "start" /\ entry = "nearest"
    /\ \E dr \in SearchResults :
          LET nearest_result == find_nearest_destination(origin, dr, 10000)
          IN  /\ dest_result' = dr
              /\ nearest' = nearest_result
              /\ calls' = Append(calls, Call("search", dr.success))
              /\ IF ~nearest_result.success
                 THEN /\ result' = nearest_result
                      /\ pc' = "done"
                      /\ UNCHANGED destination
                 ELSE /\ destination' = nearest_result.nearest_destination
                      /\ pc' = "graph"
                      /\ UNCHANGED result
    /\ UNCHANGED <<pathVars, scoreVars, point, candidates, max_distance_km, routeVars, entry, origin>>

\* an except clause that goes on to the telemetry snapshot
RouteFails_carryon(name) ==
    /\ calls' = Append(calls, Call(name, FALSE))
    /\ pc' = "telemetry"
    /\ UNCHANGED <<pathVars, scoreVars, scanVars, routeVars, entry, origin, destination,
                   dest_result, result>>

\* an exception inside get_osm_route_with_air_quality: its except clause builds
\* route_result, which every orchestrator returns as it is
RouteFails(name) ==
    /\ calls' = Append(calls, Call(name, FALSE))
    /\ result' = RouteError(name)
    /\ pc' = "done"
    /\ UNCHANGED <<pathVars, scoreVars, scanVars, routeVars, entry, origin, destination, dest_result>>

RouteProceeds(name, next) ==
    /\ calls' = Append(calls, Call(name, TRUE))
    /\ pc' = next
    /\ UNCHANGED <<pathVars, scoreVars, scanVars, entry, origin, destination, dest_result, result>>

\* ox.graph_from_place
FetchGraph ==
    /\ pc = "graph"
    /\ RouteProceeds("graph", "snap")
    /\ UNCHANGED routeVars
FetchGraphFails ==
    /\ pc = "graph"
    /\ RouteFails("graph")

\* ox.distance.nearest_nodes, for the origin and for the destination
SnapNodes ==
    /\ pc = "snap"
    /\ RouteProceeds("snap", "path")
    /\ UNCHANGED routeVars
SnapNodesFails ==
    /\ pc = "snap"
    /\ RouteFails("snap")

\* nx.shortest_path, then the coordinates and the length of the route
ShortestPath ==
    /\ pc = "path"
    /\ \E route \in OrchRoutes :
          /\ route_coords' = route
          /\ route_length_m' \in RouteLengths(route)
    /\ RouteProceeds("path", "telemetry")
    /\ UNCHANGED <<mode, air_quality_data, steps, summary>>
ShortestPathFails ==
    /\ pc = "path"
    /\ RouteFails("path")

\* get_air_quality_for_all_nodes: it catches its own faults and returns a snapshot
FetchTelemetry ==
    /\ pc = "telemetry"
    /\ air_quality_data' \in OrchSnapshots
    /\ calls' = Append(calls, Call("telemetry", air_quality_data'.success))
    /\ pc' = "assemble"
    /\ UNCHANGED <<pathVars, scoreVars, scanVars, route_coords, mode, route_length_m, steps, summary,
                   entry, origin, destination, dest_result, result>>

\* an orchestrator that gives up when the telemetry snapshot failed
Assemble_abort ==
    /\ pc = "assemble"
    /\ steps' = generate_detailed_route_steps(route_coords, air_quality_data, mode,
                                              route_length_m)
    /\ summary' = analyze_route_air_quality(route_coords, air_quality_data)
    /\ result' = IF ~air_quality_data.success THEN RouteError("telemetry")
                 ELSE CompleteResult(entry,
                     RouteResult(origin, destination.pos, mode, route_coords, route_length_m,
                                 steps', summary'),
                     destination, dest_result, nearest)
    /\ pc' = "done"
    /\ UNCHANGED <<pathVars, scoreVars, scanVars, route_coords, mode, route_length_m, air_quality_data,
                   entry, origin, destination, dest_result, calls>>

\* steps, analysis and the returned value
Assemble ==
    /\ pc = "assemble"
    /\ steps' = generate_detailed_route_steps(route_coords, air_quality_data, mode,
                                              route_length_m)
    /\ summary' = analyze_route_air_quality(route_coords, air_quality_data)
    /\ result' = CompleteResult(entry,
                     RouteResult(origin, destination.pos, mode, route_coords, route_length_m,
                                 steps', summary'),
                     destination, dest_result, nearest)
    /\ pc' = "done"
    /\ UNCHANGED <<pathVars, scoreVars, scanVars, route_coords, mode, route_length_m, air_quality_data,
                   entry, origin, destination, dest_result, calls>>

NextOrch ==
    \/ EnterDirect \/ SearchDestination \/ NearestDestination
    \/ FetchGraph \/ FetchGraphFails
    \/ SnapNodes \/ SnapNodesFails
    \/ ShortestPath \/ ShortestPathFails
    \/ FetchTelemetry
    \/ Assemble

SpecOrch == InitOrch /\ [][NextOrch]_vars

\* =================================================================
\* SpecPath: snapping, shortest path and route length on one street graph
\* =================================================================
\* node n lies (n - 1) * GraphStep up the road
GraphNodes == [n \in 1..MaxGraphNodes |-> (n - 1) * GraphStep]

\* the edges up the road: as long as the straight line between their nodes,
\* longer, or without the length attribute
EdgeKinds ==
    UNION {{[from |-> uv[1], to |-> uv[2], length |-> l] :
               l \in {None, Some(geodesic(GraphNodes[uv[1]], GraphNodes[uv[2]])),
                      Some(geodesic(GraphNodes[uv[1]], GraphNodes[uv[2]]) + Detour)}}
           : uv \in {p \in (1..MaxGraphNodes) \X (1..MaxGraphNodes) : p[1] < p[2]}}

\* the graphs ox.graph_from_place can return: at least one edge, the edges in
\* the order of their keys
Graphs ==
    {[nodes |-> GraphNodes, edges |-> e] :
        e \in UNION {[1..n -> EdgeKinds] : n \in 1..MaxEdges}}

RequestedPoints == {k * ReqStep : k \in 0..MaxReq}

InitPath ==
    /\ pc = "start"
    /\ graph \in Graphs
    /\ origin \in RequestedPoints
    /\ destination \in {[nombre |-> 0, pos |-> p] : p \in RequestedPoints}
    /\ origin_node = 0 /\ destination_node = 0 /\ route_nodes = <<>>
    /\ entry = "direct" /\ dest_result = [success |-> FALSE]
    /\ result = NoResult /\ calls = <<>>
    /\ ScoreIdle /\ ScanIdle /\ RouteIdle

\* origin_node and destination_node
SnapEndpoints ==
    /\ pc = "start"
    /\ origin_node' \in nearest_nodes(graph, origin)
    /\ destination_node' \in nearest_nodes(graph, destination.pos)
    /\ pc' = "snapped"
    /\ UNCHANGED <<graph, route_nodes, scoreVars, scanVars, routeVars, orchVars>>

\* route and route_coords
FindShortestPath ==
    /\ pc = "snapped"
    /\ route_nodes' \in shortest_path(graph, origin_node, destination_node)
    /\ route_coords' = [i \in 1..Len(route_nodes') |->
                           Node(route_nodes'[i], graph.nodes[route_nodes'[i]])]
    /\ pc' = "routed"
    /\ UNCHANGED <<graph, origin_node, destination_node, scoreVars, scanVars, orchVars,
                   mode, route_length_m, air_quality_data, steps, summary>>

\* nx.shortest_path raises NetworkXNoPath: the except clause returns
NoPath ==
    /\ pc = "snapped"
    /\ shortest_path(graph, origin_node, destination_node) = {}
    /\ result' = RouteError("path")
    /\ pc' = "done"
    /\ UNCHANGED <<pathVars, scoreVars, scanVars, routeVars,
                   entry, origin, destination, dest_result, calls>>

\* route_length_m
MeasureRoute ==
    /\ pc = "routed"
    /\ route_length_m' = RouteLength(graph, route_nodes, 1)
    /\ pc' = "measured"
    /\ UNCHANGED <<pathVars, scoreVars, scanVars, orchVars,
                   route_coords, mode, air_quality_data, steps, summary>>

NextPath == SnapEndpoints \/ FindShortestPath \/ NoPath \/ MeasureRoute

SpecPath == InitPath /\ [][NextPath]_vars

\* =================================================================
\* Claims
\* =================================================================
Clamp(x, lo, hi) == Max(lo, Min(hi, x))

\* the formula of the claim, in 1e-5 score points
ClaimedScore(m) ==
    LET pm25 == OrZero(m.massPM2_5Avg)
        pm10 == OrZero(m.massPM10_0Avg)
    IN  7 * Clamp(1000000 - 200 * pm25, 0, 1000000)
          + 3 * Clamp(1000000 - 50 * pm10, 0, 1000000)

\* C1 as stated: the returned score IS 0.7*clamp(100 - 2*pm25, 0, 100) +
\* 0.3*clamp(100 - 0.5*pm10, 0, 100), exactly.
C1_Original ==
    pc = "scored" => 1000 * score = ClaimedScore(metrics)

\* C1 (amended): the returned score is that weighted sum rounded to 2 decimals
\* (within half a hundredth of it, on the hundredths grid), it lies in [0, 100],
\* pm25 = pm10 = 0 (or absent) gives 100.0, and for pm25 >= 50 it is 0.3 times
\* the pm10 component, rounded to 2 decimals.
C1_ScoreFormula ==
    pc = "scored" =>
        /\ score \in 0..10000
        /\ 2 * Abs(1000 * score - ClaimedScore(metrics)) <= 1000
        /\ (OrZero(metrics.massPM2_5Avg) = 0 /\ OrZero(metrics.massPM10_0Avg) = 0)
              => score = 10000
        /\ OrZero(metrics.massPM2_5Avg) >= 5000 =>
              2 * Abs(1000 * score
                      - 3 * Clamp(1000000 - 50 * OrZero(metrics.massPM10_0Avg), 0, 1000000))
                 <= 1000

\* a reading with pm25 >= 50 whose score is carried by the pm10 component alone
C1_Witness ==
    /\ pc = "scored"
    /\ OrZero(metrics.massPM2_5Avg) >= 5000
    /\ OrZero(metrics.massPM10_0Avg) > 0
    /\ score > 0 /\ score < 3000

\* C2: get_quality_level is total and non-overlapping on [0, 100]: score >= 80
\* is excellent, 60 <= score < 80 good, 40 <= score < 60 moderate, score < 40
\* poor; the boundaries 40, 60 and 80 belong to the higher tier.
C2_TiersTotal ==
    pc = "levelled" =>
        /\ level \in {"Excelente", "Buena", "Moderada", "Mala"}
        /\ (level = "Excelente") <=> (score >= 8000)
        /\ (level = "Buena") <=> (score >= 6000 /\ score < 8000)
        /\ (level = "Moderada") <=> (score >= 4000 /\ score < 6000)
        /\ (level = "Mala") <=> (score < 4000)

\* a score on a tier boundary, mapped to the higher tier
C2_Witness ==
    pc = "levelled" /\ score = 6000 /\ level = "Buena"

\* distances of the candidates to the query point, and the first closest one
CandDist(i) == geodesic(point, candidates[i].pos)
MinCandDist == CHOOSE d \in {CandDist(i) : i \in 1..Len(candidates)} :
                   \A j \in 1..Len(candidates) : d <= CandDist(j)
FirstClosest == CHOOSE i \in 1..Len(candidates) :
                   /\ CandDist(i) = MinCandDist
                   /\ \A j \in 1..(i - 1) : CandDist(j) # MinCandDist
SomeInRadius == candidates # <<>> /\ MinCandDist <= max_distance_km

\* C3: both nearest-neighbour scans return the candidate at the minimum distance
\* over ALL candidates when that minimum is <= max_distance_km, the first such
\* candidate in iteration order on ties, and none otherwise.
C3_NearestScan ==
    /\ pc = "sensor" =>
          IF SomeInRadius THEN nearest = Some(candidates[FirstClosest])
          ELSE nearest = None
    /\ pc = "destination" =>
          IF SomeInRadius
          THEN nearest.success /\ nearest.nearest_destination = candidates[FirstClosest]
          ELSE ~nearest.success

\* candidates at 1, 2 and 5 km: the 1 km one for radius 3 km
C3_Witness ==
    /\ pc = "sensor" /\ point = 0 /\ max_distance_km = 3000
    /\ Len(candidates) = 3
    /\ candidates[1].pos = 2000 /\ candidates[2].pos = 1000 /\ candidates[3].pos = 5000
    /\ nearest = Some(candidates[2])

\* the types of the steps between the first and the last
NavCount == Cardinality({i \in 1..Len(steps) : steps[i].type = "navigation"})
NumSegments(n) == Clamp(n \div 10, 3, 8)

\* C4: a non-empty path of n nodes gives exactly 2 steps (start, arrival, no
\* navigation step) when n < 3, and clamp(n // 10, 3, 8) + 1 steps when n >= 3:
\* one start, clamp(n // 10, 3, 8) - 1 navigation steps, one arrival.
C4_StepCount ==
    pc = "steps" =>
        LET n == Len(route_coords)
        IN  IF n < 3
            THEN Len(steps) = 2 /\ NavCount = 0
            ELSE /\ Len(steps) = NumSegments(n) + 1
                 /\ NavCount = NumSegments(n) - 1

\* a 50-node path: 6 steps, 4 of them navigation steps
C4_Witness ==
    pc = "steps" /\ Len(route_coords) = 50 /\ Len(steps) = 6 /\ NavCount = 4

\* C5: step_number is contiguous 1..k in output order, the first step is the
\* only start step and sits at node 0, the last step is the only arrival step
\* and sits at the last node, every step in between is a navigation step.
C5_StepShape ==
    pc = "steps" =>
        /\ Len(steps) >= 2
        /\ \A i \in 1..Len(steps) : steps[i].step_number = i
        /\ steps[1].type = "start"
        /\ steps[1].coordinates = route_coords[1]
        /\ steps[Len(steps)].type = "arrival"
        /\ steps[Len(steps)].coordinates = route_coords[Len(route_coords)]
        /\ \A i \in 2..(Len(steps) - 1) : steps[i].type = "navigation"

\* a segmented route with several navigation steps, numbered through
C5_Witness ==
    /\ pc = "steps" /\ Len(route_coords) >= 80 /\ Len(steps) = 9
    /\ steps[9].step_number = 9 /\ steps[9].type = "arrival"
    /\ steps[5].type = "navigation"

\* C6: distance_from_start_km and estimated_time_min are non-negative and
\* non-decreasing from each step to the next.
C6_Monotone ==
    pc = "steps" =>
        /\ \A i \in 1..Len(steps) :
              steps[i].distance_from_start_km >= 0 /\ steps[i].estimated_time_min >= 0
        /\ \A i \in 1..(Len(steps) - 1) :
              /\ steps[i].distance_from_start_km <= steps[i + 1].distance_from_start_km
              /\ steps[i].estimated_time_min <= steps[i + 1].estimated_time_min

RouteKeys == {"route_summary", "step_by_step_instructions", "route_coordinates",
              "air_quality_analysis", "map_data"}
\* the graph fetch, the snapping, the path computation or the destination
\* search failed
RequestFailed ==
    \/ \E i \in 1..Len(calls) : calls[i].name # "telemetry" /\ ~calls[i].ok
    \/ entry = "nearest" /\ ~nearest.success

\* C7: failures never escape as faults and never yield a partial route: when
\* the graph fetch, node snapping, shortest-path computation or destination
\* search fails in any of the three orchestrators, the returned value has
\* success = false, an error message, and none of route_summary,
\* step_by_step_instructions, route_coordinates, air_quality_analysis, map_data.
C7_NoPartialRoute ==
    pc = "done" =>
        /\ "success" \in DOMAIN result
        /\ RequestFailed =>
              /\ ~result.success
              /\ "error" \in DOMAIN result
              /\ DOMAIN result \cap RouteKeys = {}

\* search-and-route found its destination, then no path exists
C7_Witness ==
    /\ pc = "done" /\ entry = "search"
    /\ Len(calls) = 4 /\ calls[4] = Call("path", FALSE)
    /\ ~result.success

\* the returned value had the telemetry outcome been snapshot
ResultUnder(snapshot) ==
    CompleteResult(entry,
        RouteResult(origin, destination.pos, mode, route_coords, route_length_m,
            generate_detailed_route_steps(route_coords, snapshot, mode, route_length_m),
            analyze_route_air_quality(route_coords, snapshot)),
        destination, dest_result, nearest)
\* a step without its air_quality field
StepGeometry(step) == [k \in DOMAIN step \ {"air_quality"} |-> step[k]]

\* C8: degraded air-quality data never aborts a request and never changes the
\* route geometry: once a path is computed the result is success = true whatever
\* the telemetry outcome, and route_summary, route_coordinates, map_data (every
\* field but air_quality_analysis and the timestamp) and every field of every
\* step but air_quality are what any other telemetry outcome would have given.
C8_TelemetryFrame ==
    (pc = "done" /\ route_coords # <<>>) =>
        /\ result.success
        /\ \A snapshot \in OrchSnapshots :
              LET other == ResultUnder(snapshot)
              IN  /\ DOMAIN result = DOMAIN other
                  /\ \A k \in DOMAIN result \ {"step_by_step_instructions",
                                               "air_quality_analysis", "timestamp"} :
                        result[k] = other[k]
                  /\ Len(result.step_by_step_instructions)
                        = Len(other.step_by_step_instructions)
                  /\ \A i \in 1..Len(result.step_by_step_instructions) :
                        StepGeometry(result.step_by_step_instructions[i])
                           = StepGeometry(other.step_by_step_instructions[i])

\* nearest-of-type routing whose telemetry fetch failed: a full segmented route
C8_Witness ==
    /\ pc = "done" /\ entry = "nearest" /\ route_coords # <<>>
    /\ ~air_quality_data.success
    /\ result.success /\ Len(result.step_by_step_instructions) > 3
    /\ result.air_quality_analysis.average_air_quality_score = 5000

\* the sampled 0-based node indexes, and those with a sensor within 3 km
SampledIdx ==
    {i \in 0..(Len(route_coords) - 1) : i % Max(1, Len(route_coords) \div 10) = 0}
SensorInRange(i) ==
    \E k \in 1..Len(air_quality_data.nodes_with_air_quality) :
        geodesic(route_coords[i + 1].pos, air_quality_data.nodes_with_air_quality[k].pos) <= 3000
JoinedIdx == {i \in SampledIdx : SensorInRange(i)}
DegradedFields == {"average_air_quality_score", "quality_level", "message"}
IsDegraded(msg) ==
    /\ DOMAIN summary = DegradedFields
    /\ summary.average_air_quality_score = 5000
    /\ summary.message = msg

\* C9: the analyzer returns a degraded summary (average exactly 50.0, no
\* samples_analyzed, min_score, max_score or sample points) in three cases, each
\* with a message of its own: (a) the snapshot fetch failed, (b) the snapshot
\* holds zero sensors, (c) sensors exist but no sampled point has one within
\* 3 km; in every other case it returns the non-degraded summary.
C9_DegradedCases ==
    pc = "analysed" =>
        IF ~air_quality_data.success
        THEN IsDegraded("No hay datos disponibles de calidad del aire")
        ELSE IF air_quality_data.nodes_with_air_quality = <<>>
        THEN IsDegraded("No se encontraron sensores de calidad del aire")
        ELSE IF JoinedIdx = {}
        THEN IsDegraded("No se pudieron obtener datos de calidad del aire en la ruta")
        ELSE /\ "message" \notin DOMAIN summary
             /\ {"samples_analyzed", "min_score", "max_score", "quality_points"}
                   \subseteq DOMAIN summary

\* sensors exist, every sampled point is farther than 3 km from all of them
C9_Witness ==
    /\ pc = "analysed" /\ air_quality_data.success
    /\ air_quality_data.nodes_with_air_quality # <<>>
    /\ JoinedIdx = {} /\ Len(route_coords) > 10
    /\ summary.message = "No se pudieron obtener datos de calidad del aire en la ruta"

\* the score joined to sampled index i, and the joined indexes in route order
JoinedScore(i) ==
    find_nearest_air_quality_node(route_coords[i + 1].pos,
        air_quality_data.nodes_with_air_quality, 3000)[1].air_quality.air_quality_score
RECURSIVE SumOver(_)
SumOver(S) == IF S = {} THEN 0
              ELSE LET i == CHOOSE x \in S : TRUE IN JoinedScore(i) + SumOver(S \ {i})
\* the j-th smallest joined index
JoinedAt(j) == CHOOSE i \in JoinedIdx : Cardinality({x \in JoinedIdx : x < i}) = j - 1

\* C10: in the non-degraded summary only the sampled points joined to a sensor
\* within 3 km contribute: samples_analyzed is their number (>= 1), the average
\* is the mean of exactly their scores (to 2 decimals; unjoined samples are
\* dropped, not counted as 50.0), min_score <= average <= max_score with min and
\* max over those scores, and the sample points are the first
\* min(3, samples_analyzed) joined samples in route order.
C10_JoinedOnly ==
    (pc = "analysed" /\ "samples_analyzed" \in DOMAIN summary) =>
        LET cnt == Cardinality(JoinedIdx)
            joined == {JoinedScore(i) : i \in JoinedIdx}
        IN  /\ cnt >= 1
            /\ summary.samples_analyzed = cnt
            /\ 2 * Abs(summary.average_air_quality_score * cnt - SumOver(JoinedIdx)) <= cnt
            /\ summary.min_score \in joined /\ \A x \in joined : summary.min_score <= x
            /\ summary.max_score \in joined /\ \A x \in joined : summary.max_score >= x
            /\ summary.min_score <= summary.average_air_quality_score
            /\ summary.average_air_quality_score <= summary.max_score
            /\ Len(summary.quality_points) = Min(3, cnt)
            /\ \A j \in 1..Min(3, cnt) :
                  /\ summary.quality_points[j].coordinates = route_coords[JoinedAt(j) + 1]
                  /\ summary.quality_points[j].score = JoinedScore(JoinedAt(j))

\* some samples joined (to sensors of different scores), others dropped, more
\* than three joined
C10_Witness ==
    /\ pc = "analysed" /\ "samples_analyzed" \in DOMAIN summary
    /\ summary.samples_analyzed > 3
    /\ summary.samples_analyzed < Cardinality(SampledIdx)
    /\ summary.min_score < summary.max_score
    /\ summary.average_air_quality_score # 5000

\* the request went through get_complete_route_with_osm_search and returned
SearchDone == entry = "search" /\ pc = "done"
RouteCalls == {i \in 1..Len(calls) : calls[i].name # "search"}

\* C11: search-and-route takes the first-ranked match of the place search as
\* the destination; with zero matches it fails (destination not found) and no
\* call of the route is made; on success the alternatives are the matches
\* ranked 2 and 3, at most 2 of them, fewer when fewer matches exist, and none
\* of them is the chosen destination
C11_FirstMatchAndAlternatives ==
    SearchDone =>
        IF ~dest_result.success
        THEN /\ ~result.success
             /\ result.error = "No se encontro"
             /\ RouteCalls = {}
             /\ route_coords = <<>>
        ELSE /\ destination = dest_result.matches[1]
             /\ result.success =>
                  LET matches == dest_result.matches
                      alternatives == result.alternative_destinations
                  IN  /\ result.destination_info = matches[1]
                      /\ result.route_summary.destination.pos = matches[1].pos
                      /\ Len(alternatives) = Min(2, Len(matches) - 1)
                      /\ \A i \in 1..Len(alternatives) : alternatives[i] = matches[i + 1]
                      /\ \A i \in 1..Len(alternatives) :
                             alternatives[i] # result.destination_info

\* the parts of C11 that hold: first match, failure without a route, ranks 2 and 3
C11_ByRank ==
    SearchDone =>
        IF ~dest_result.success
        THEN ~result.success /\ RouteCalls = {} /\ route_coords = <<>>
        ELSE /\ destination = dest_result.matches[1]
             /\ result.success =>
                  /\ result.destination_info = dest_result.matches[1]
                  /\ result.alternative_destinations =
                         SubSeq(dest_result.matches, 2, Min(3, Len(dest_result.matches)))

\* the request went through get_nearest_route_with_air_quality and returned
NearestDone == entry = "nearest" /\ pc = "done"
MatchDist(i) == geodesic(origin, dest_result.matches[i].pos)
NoRouteComputed == RouteCalls = {} /\ route_coords = <<>> /\ steps = <<>>

\* C12: nearest-of-type routing routes to the search result nearest to the
\* origin among those within 10 km; with zero candidates it fails with the
\* not-found error, with candidates all beyond 10 km it fails with the other,
\* none-within-radius error, both times without any call of the route; on
\* success the straight-line distance reported is that of the chosen
\* destination and is at most 10 km
C12_NearestOfType ==
    NearestDone =>
        IF ~dest_result.success
        THEN /\ ~result.success /\ result.error = "No se encontraron"
             /\ NoRouteComputed
        ELSE IF \A i \in 1..Len(dest_result.matches) : MatchDist(i) > 10000
        THEN /\ ~result.success /\ result.error = "No hay dentro de"
             /\ result.error # "No se encontraron"
             /\ NoRouteComputed
        ELSE /\ \E i \in 1..Len(dest_result.matches) : destination = dest_result.matches[i]
             /\ \A i \in 1..Len(dest_result.matches) :
                    geodesic(origin, destination.pos) <= MatchDist(i)
             /\ geodesic(origin, destination.pos) <= 10000
             /\ RouteCalls # {}
             /\ result.success =>
                    /\ result.destination_info = destination
                    /\ result.route_summary.destination.pos = destination.pos
                    /\ 2 * Abs(10 * result.nearest_search.straight_line_distance_km
                               - geodesic(origin, destination.pos)) <= 10
                    /\ result.nearest_search.straight_line_distance_km <= 1000

\* a route to a destination that is not the first match: a later one is nearer
C12_Witness ==
    /\ NearestDone /\ result.success
    /\ result.destination_info # dest_result.matches[1]
    /\ \E i \in 1..Len(dest_result.matches) : MatchDist(i) > 10000

\* the length loop has run on a route of the graph
Measured == pc = "measured"

\* C13: for every successful route the reported road distance is at least the
\* straight-line distance between the requested origin and destination (both
\* rounded to 2 decimals, as total_distance_km and straight_line_distance_km are)
C13_RoadAtLeastStraight ==
    Measured => RoundKm(route_length_m) >= RoundKm(geodesic(origin, destination.pos))

\* the same on graphs whose edges all carry their length
C13_WithLengths ==
    (Measured /\ \A i \in 1..Len(graph.edges) : graph.edges[i].length # None)
        => RoundKm(route_length_m) >= RoundKm(geodesic(origin, destination.pos))

\* the same between the snapped nodes, on graphs whose edges all carry their length
C13_BetweenNodes ==
    (Measured /\ \A i \in 1..Len(graph.edges) : graph.edges[i].length # None)
        => route_length_m >= geodesic(graph.nodes[origin_node], graph.nodes[destination_node])

\* the length of a path: for every hop the shortest of its parallel edges, an
\* edge without the attribute adding nothing
HopLength(u, v) ==
    LET parallel == get_edge_data(graph, u, v)
        lengths == {OrZero(parallel[i].length) : i \in 1..Len(parallel)}
    IN  CHOOSE w \in lengths : \A x \in lengths : w <= x
RECURSIVE PathLength(_, _)
PathLength(p, i) ==
    IF i >= Len(p) THEN 0 ELSE HopLength(p[i], p[i + 1]) + PathLength(p, i + 1)
ShortestLength ==
    LET lengths == {PathLength(p, 1) : p \in Paths(graph, origin_node, destination_node)}
    IN  CHOOSE w \in lengths : \A x \in lengths : w <= x

\* C15: the route length reported equals the length of the shortest path
\* between the two snapped nodes, the least sum of edge lengths over all paths,
\* also on graphs with parallel edges and with edges without a length
C15_LengthOfShortestPath ==
    Measured => route_length_m = ShortestLength

\* the same on graphs whose edges all carry their length
C15_WithLengths ==
    (Measured /\ \A i \in 1..Len(graph.edges) : graph.edges[i].length # None)
        => route_length_m = ShortestLength

\* the same on graphs without parallel edges whose edges all carry their length
C15_SimpleGraph ==
    (/\ Measured
     /\ \A i \in 1..Len(graph.edges) : graph.edges[i].length # None
     /\ \A i, j \in 1..Len(graph.edges) :
            (graph.edges[i].from = graph.edges[j].from /\ graph.edges[i].to = graph.edges[j].to)
                => i = j)
        => route_length_m = ShortestLength

\* the external calls of a direct route, in the order of the code
CallOrder == <<"graph", "snap", "path", "telemetry">>
Analysed == steps # <<>> \/ summary # None

\* C14: in a direct-route request the external calls are made in the order
\* graph fetch, snapping, shortest path, telemetry snapshot, each at most once,
\* and steps and analysis come after the telemetry fetch; after a failed graph
\* fetch, snapping or path computation nothing more is called (no telemetry,
\* no second attempt) and the request has failed
C14_CallOrder ==
    entry = "direct" =>
        /\ Len(calls) <= Len(CallOrder)
        /\ \A i \in 1..Len(calls) : calls[i].name = CallOrder[i]
        /\ \A i \in 1..Len(calls) :
               (~calls[i].ok /\ calls[i].name # "telemetry") =>
                   /\ i = Len(calls)
                   /\ pc = "done" /\ ~result.success
                   /\ air_quality_data = None /\ ~Analysed
        /\ Analysed => Len(calls) = Len(CallOrder)
        /\ air_quality_data # None => Len(calls) = Len(CallOrder)
        /\ (pc = "done" /\ result.success) => (Len(calls) = Len(CallOrder) /\ Analysed)

\* a direct route that failed at the path computation, after two calls went well
C14_Witness ==
    /\ entry = "direct" /\ pc = "done"
    /\ Len(calls) = 3 /\ ~calls[3].ok /\ calls[1].ok /\ calls[2].ok

\* the summary is a full one: samples joined a sensor
FullSummary == pc = "analysed" /\ "samples_analyzed" \in DOMAIN summary

\* the tier a recommendation text speaks of
RecommendationTier(text) ==
    CASE text = "Calidad del aire excelente" -> "Excelente"
      [] text = "Calidad del aire buena" -> "Buena"
      [] text = "Calidad moderada" -> "Moderada"
      [] OTHER -> "Mala"

\* C16: in every non-degraded summary quality_level is the tier of the
\* reported average score (the mean rounded to 2 decimals) and the
\* recommendation is the text of that tier, also for means that round up onto
\* a tier boundary
C16_TierOfReportedAverage ==
    FullSummary =>
        /\ summary.quality_level = get_quality_level(summary.average_air_quality_score)
        /\ RecommendationTier(summary.recommendation)
               = get_quality_level(summary.average_air_quality_score)

\* what holds: level and recommendation are of one tier, that of the unrounded mean
C16_TierOfMean ==
    FullSummary =>
        /\ RecommendationTier(summary.recommendation) = summary.quality_level
        /\ \/ summary.quality_level = get_quality_level(summary.average_air_quality_score)
           \/ /\ summary.quality_level = get_quality_level(summary.average_air_quality_score - 1)
              /\ summary.average_air_quality_score \in {4000, 6000, 8000}

\* every sampled point has a sensor within 3 km: the summary shows every sample
AllJoined == FullSummary /\ JoinedIdx = SampledIdx
Stride == Max(1, Len(route_coords) \div 10)

\* the samples are the indexes 0, k, 2k, ... below n: the summary counts that
\* many, and its sample points are the first three of them
SamplesAtStride ==
    /\ summary.samples_analyzed = (Len(route_coords) + Stride - 1) \div Stride
    /\ \A j \in 1..Len(summary.quality_points) :
           summary.quality_points[j].coordinates = route_coords[(j - 1) * Stride + 1]
    /\ Len(summary.quality_points) = Min(3, summary.samples_analyzed)

\* C17 as claimed: the analyzer samples exactly the indexes 0, k, 2k, ... below
\* n with k = max(1, n // 10), and the sampled points are at most 11 for every n
C17_Original ==
    AllJoined => (SamplesAtStride /\ summary.samples_analyzed <= 11)

\* C17: the analyzer samples exactly the indexes 0, k, 2k, ... below n with
\* k = max(1, n // 10); the sampled points are ceil(n / k) in number, at most 19
C17_SampleIndexes ==
    AllJoined => (SamplesAtStride /\ summary.samples_analyzed <= 19)

\* a route of 19 nodes: stride 1, all 19 nodes sampled
C17_Witness ==
    AllJoined /\ Len(route_coords) = 19 /\ summary.samples_analyzed = 19

\* a route was returned: steps and analysis are those of the result
RouteDone == pc = "done" /\ result.success
Sensors == air_quality_data.nodes_with_air_quality
SensorDist(p, k) == geodesic(p, Sensors[k].pos)
\* the sensors within 3 km of p, and the first of the nearest among them
Within3km(p) == {k \in 1..Len(Sensors) : SensorDist(p, k) <= 3000}
NearestWithin3km(p) ==
    CHOOSE k \in Within3km(p) :
        /\ \A j \in Within3km(p) : SensorDist(p, k) <= SensorDist(p, j)
        /\ \A j \in Within3km(p) : SensorDist(p, j) = SensorDist(p, k) => k <= j
NoSensorFor(p) == ~air_quality_data.success \/ Within3km(p) = {}
\* the step is at a sampled point of the analyzer that has no sensor within 3 km
UnjoinedSample(i) ==
    /\ air_quality_data.success
    /\ (steps[i].coordinates.node_id - 1) \in (SampledIdx \ JoinedIdx)

\* C18: every step's air_quality is score and tier of the nearest sensor within
\* 3 km of the step's coordinates when the snapshot succeeded and there is such
\* a sensor, and else the default 50.0 with a no-data level and no
\* nearest_sensor; a sampled point without a sensor in range is 50.0 in its
\* step, while the analyzer leaves it out of its count and of its scores
C18_StepAirQuality ==
    RouteDone =>
        /\ result.step_by_step_instructions = steps
        /\ result.air_quality_analysis = summary
        /\ \A i \in 1..Len(steps) :
               LET p == steps[i].coordinates.pos
                   aq == steps[i].air_quality
               IN  IF NoSensorFor(p)
                   THEN /\ aq.score = 5000
                        /\ aq.level \in {"Sin datos", "Sin datos cercanos"}
                        /\ DOMAIN aq = {"score", "level"}
                   ELSE LET sensor == Sensors[NearestWithin3km(p)]
                        IN  /\ aq.score = sensor.air_quality.air_quality_score
                            /\ aq.level = get_quality_level(aq.score)
                            /\ aq.nearest_sensor = sensor.nombre
        /\ \A i \in 1..Len(steps) :
               UnjoinedSample(i) =>
                   /\ steps[i].air_quality.score = 5000
                   /\ IF JoinedIdx = {}
                      THEN "samples_analyzed" \notin DOMAIN summary
                      ELSE /\ summary.samples_analyzed = Cardinality(JoinedIdx)
                           /\ summary.samples_analyzed < Cardinality(SampledIdx)
                           /\ \A j \in 1..Len(summary.quality_points) :
                                  summary.quality_points[j].coordinates
                                      # steps[i].coordinates
                           /\ \E x \in JoinedIdx : summary.min_score = JoinedScore(x)
                           /\ \E x \in JoinedIdx : summary.max_score = JoinedScore(x)
                           /\ 2 * Abs(summary.average_air_quality_score * Cardinality(JoinedIdx)
                                      - SumOver(JoinedIdx)) <= Cardinality(JoinedIdx)

\* a route with a step at a sampled point beyond 3 km of every sensor, a step
\* joined to a sensor, and an analysis of the joined samples only
C18_Witness ==
    /\ RouteDone /\ air_quality_data.success
    /\ \E i \in 1..Len(steps) : UnjoinedSample(i) /\ steps[i].air_quality.score = 5000
    /\ \E i \in 1..Len(steps) : "nearest_sensor" \in DOMAIN steps[i].air_quality
    /\ "samples_analyzed" \in DOMAIN summary

\* the navigation steps of a synthesized route, and the index of a step's node
Synthesized == pc = "steps" /\ Len(route_coords) >= 3
NavSteps == {i \in 1..Len(steps) : steps[i].type = "navigation"}
PointIdx(i) == steps[i].coordinates.node_id - 1

\* the band of an instruction text, and the band of a progress idx / n
Band(text) ==
    CASE text = "Continue por la ruta principal" -> 1
      [] text = "Mantengase en esta via" -> 2
      [] text = "Se acerca a su destino" -> 3
      [] text = "Prepare su llegada al destino final" -> 4
      [] OTHER -> 0
ProgressBand(idx, n) ==
    IF 100 * idx < 30 * n THEN 1
    ELSE IF 100 * idx < 60 * n THEN 2
    ELSE IF 100 * idx < 90 * n THEN 3
    ELSE 4

\* C19: a navigation step's instruction is chosen by its progress along the
\* route: below 30% continue on the main route, else below 60% stay on this
\* road, else below 90% approaching the destination, else prepare to arrive;
\* the instructions of successive navigation steps never go back a band
C19_InstructionBands ==
    Synthesized =>
        /\ \A i \in NavSteps :
               Band(steps[i].instruction) = ProgressBand(PointIdx(i), Len(route_coords))
        /\ \A i, j \in NavSteps :
               i < j => Band(steps[i].instruction) <= Band(steps[j].instruction)

\* a route whose navigation steps go through the first three bands
C19_Witness ==
    /\ Synthesized
    /\ \A b \in 1..3 : \E i \in NavSteps : Band(steps[i].instruction) = b

\* C20: for every route of n >= 3 nodes the progress point_idx / n of every
\* navigation step is strictly below 0.9, so the synthesizer never emits the
\* fourth instruction, prepare to arrive
C20_NeverPrepareToArrive ==
    Synthesized =>
        \A i \in NavSteps :
            /\ 10 * PointIdx(i) < 9 * Len(route_coords)
            /\ steps[i].instruction # "Prepare su llegada al destino final"
            /\ Band(steps[i].instruction) \in 1..3

\* a route of 8 segments whose last navigation step is 7/8 of the way
C20_Witness ==
    /\ Synthesized
    /\ \E i \in NavSteps :
           /\ 8 * PointIdx(i) = 7 * Len(route_coords)
           /\ steps[i].instruction = "Se acerca a su destino"

\* the size of a segment, and the navigation steps in the order of the list
SegmentSize == Len(route_coords) \div NumSegments(Len(route_coords))
NavAt(j) == CHOOSE i \in NavSteps : Cardinality({x \in NavSteps : x < i}) = j - 1

\* C21: for every route of n >= 3 nodes the node indexes of the navigation
\* steps are strictly increasing and lie in 1..n-1; the guard point_idx >= n
\* never breaks the loop, so every segment 1..num_segments-1 has its step, the
\* j-th at index j * segment_size (the last may be n-1, the arrival node)
C21_NavigationIndexes ==
    Synthesized =>
        /\ \A i \in NavSteps : PointIdx(i) \in 1..(Len(route_coords) - 1)
        /\ \A i, j \in NavSteps : i < j => PointIdx(i) < PointIdx(j)
        /\ Cardinality(NavSteps) = NumSegments(Len(route_coords)) - 1
        /\ \A j \in 1..Cardinality(NavSteps) : PointIdx(NavAt(j)) = j * SegmentSize
        /\ (NumSegments(Len(route_coords)) - 1) * SegmentSize < Len(route_coords)

\* a route whose last navigation step is at the arrival node, index n - 1
C21_Witness ==
    /\ Synthesized
    /\ \E i \in NavSteps :
           /\ PointIdx(i) = Len(route_coords) - 1
           /\ steps[i].coordinates = steps[Len(steps)].coordinates
           /\ steps[Len(steps)].type = "arrival"

====
